---- MODULE Spec2Model ----
(***************************************************************************)
(* A model of CSVVisualizer (src/app/visualize_data.py): the loader        *)
(* (load_and_prepare_data), the statistics engine (calculate_statistics)   *)
(* and the two histogram renders (create_ascii_histogram,                  *)
(* create_inline_histogram) and the report formatter                       *)
(* (format_statistics_table, generate_detailed_report, run_analysis).      *)
(*                                                                         *)
(* Cells of the CSV source are small naturals, the missing marker NaN or   *)
(* the marker Text of a cell that does not parse as a number.  Rational    *)
(* results are kept exact: quartiles are carried times 4, bin edges as     *)
(* numerators over a common denominator.                                   *)
(***************************************************************************)
EXTENDS Integers, Sequences, FiniteSets, TLC

VARIABLES source, columns, bins, sample_size, histogram_width, quiet_mode,
          data, numeric_columns, pc, err, out, ret, snap

vars == <<source, columns, bins, sample_size, histogram_width, quiet_mode,
          data, numeric_columns, pc, err, out, ret, snap>>

------------------------------------------------------------------------------
(* Bounds of the model *)

\* most rows of a source
MaxRows == 3
\* largest cell value of the sources of HistSpec
MaxVal == 2
\* largest bin count and histogram width drawn in HistSpec
MaxBins == 3
MaxWidth == 5
\* latest second the clock shows when a report is generated
MaxClock == 1

------------------------------------------------------------------------------
(* Cells, rows and frames *)

\* a missing cell (pandas NaN) and a cell that holds text
NaN == -1
Text == -2

\* the header row of the source
ColNames == <<"a", "b">>
ColSet == {ColNames[i] : i \in 1..Len(ColNames)}

\* an Optional[int]: <<>> is None, <<n>> is the integer n
None == <<>>
Some(n) == <<n>>

\* Python truthiness of an Optional[int] and of an Optional[List[str]]
TruthyInt(o) == o # None /\ o[1] # 0
TruthyList(l) == l # <<>>

Range(s) == {s[i] : i \in 1..Len(s)}

\* pd.read_csv: a RangeIndex from 0, and a dtype inferred per column from
\* all its cells: object as soon as one cell is text, a number dtype
\* otherwise (a column of missing cells only is float64)
ReadCsv(rows) ==
  [rows   |-> [i \in 1..Len(rows) |-> [index |-> i - 1, cells |-> rows[i]]],
   dtypes |-> [c \in ColSet |->
                 IF \E i \in 1..Len(rows) : rows[i][c] = Text
                 THEN "object" ELSE "number"]]

\* len(self.data)
FrameLen(d) == Len(d.rows)

\* self.data[column]
Column(d, c) == [i \in 1..Len(d.rows) |-> d.rows[i].cells[c]]

\* Series.dropna()
DropNa(s) == SelectSeq(s, LAMBDA v : v # NaN)

\* a slip: Series.isna().count(), which counts every row
IsNaCount(s) == Len(s)

\* Series.isna().sum()
IsNaSum(s) == Len(SelectSeq(s, LAMBDA v : v = NaN))

\* a slip: sample(n, replace=True), rows drawn with replacement
SampleWithReplacement(d, n) ==
  {[rows   |-> [i \in 1..n |-> d.rows[p[i]]],
    dtypes |-> d.dtypes] : p \in [1..n -> 1..Len(d.rows)]}

\* DataFrame.sample(n, random_state): n rows drawn without replacement, in
\* the order the generator draws them; any draw is possible
Sample(d, n) ==
  {[rows   |-> [i \in 1..n |-> d.rows[p[i]]],
    dtypes |-> d.dtypes] :
     p \in {q \in [1..n -> 1..Len(d.rows)] :
              \A i, j \in 1..n : i # j => q[i] # q[j]}}

\* line 68: the guard of the subsampling step
ShouldSample(d, ss) == TruthyInt(ss) /\ ss[1] < FrameLen(d)

\* lines 68-71: the frames the subsampling step can leave in self.data
Sampled(d, ss) == IF ShouldSample(d, ss) THEN Sample(d, ss[1]) ELSE {d}

\* line 71: the notice of the subsampling step
SampleNotice(d, ss, quiet) ==
  IF ShouldSample(d, ss) /\ ~quiet
  THEN <<[level |-> "INFO", text |-> "Sampled rows from dataset", n |-> ss[1]]>>
  ELSE <<>>

\* line 74: select_dtypes(include=["number"]).columns.tolist()
SelectNumberDtypes(d) == SelectSeq(ColNames, LAMBDA c : d.dtypes[c] = "number")

\* a slip: self.data[c].notna().all(), which drops a column with any gap
NotNaAll(d, c) == \A i \in 1..Len(d.rows) : d.rows[i].cells[c] # NaN

\* line 77: self.data[c].notna().any()
NotNaAny(d, c) == \E i \in 1..Len(d.rows) : d.rows[i].cells[c] # NaN

\* a slip: a requested name that is no column empties the selection
FilterColumnsStrict(numeric_cols, cols) ==
  IF TruthyList(cols)
  THEN IF \E i \in 1..Len(cols) : cols[i] \notin ColSet THEN <<>>
       ELSE SelectSeq(numeric_cols, LAMBDA c : c \in Range(cols))
  ELSE numeric_cols

\* lines 80-86: the explicit column filter
FilterColumns(numeric_cols, cols) ==
  IF TruthyList(cols)
  THEN LET valid_columns == SelectSeq(cols, LAMBDA c : c \in ColSet)
       IN  SelectSeq(numeric_cols, LAMBDA c : c \in Range(valid_columns))
  ELSE numeric_cols

\* lines 82-85: one warning per requested name that is no column
FilterWarnings(cols, quiet) ==
  IF TruthyList(cols) /\ ~quiet
  THEN LET absent == SelectSeq(cols, LAMBDA c : c \notin ColSet)
       IN  [i \in 1..Len(absent) |->
              [level |-> "WARNING", text |-> "Column not found in CSV file",
               column |-> absent[i]]]
  ELSE <<>>

\* lines 73-88: the column selection computed on the frame held
SelectColumns(d, cols) ==
  FilterColumns(SelectSeq(SelectNumberDtypes(d), LAMBDA c : NotNaAny(d, c)), cols)

\* the frame of a visualizer that has read nothing
NoFrame == [rows |-> <<>>, dtypes |-> [c \in ColSet |-> "object"]]

\* a slip: the columns selected on the frame as read, before the sampling
LoadSelectsBeforeSampling(src, cols, ss, quiet) ==
  IF src.kind = "missing"
  THEN {[pc |-> "failed", err |-> "CSV file not found", data |-> NoFrame,
         numeric_columns |-> <<>>, out |-> <<>>]}
  ELSE IF src.kind = "empty"
  THEN {[pc |-> "failed", err |-> "CSV file is empty", data |-> NoFrame,
         numeric_columns |-> <<>>, out |-> <<>>]}
  ELSE LET d0 == ReadCsv(src.rows) IN
       IF FrameLen(d0) = 0
       THEN {[pc |-> "failed", err |-> "CSV file contains no data", data |-> d0,
              numeric_columns |-> <<>>, out |-> <<>>]}
       ELSE {LET sel == SelectColumns(d0, cols) IN
             [pc   |-> IF sel = <<>> THEN "failed" ELSE "loaded",
              err  |-> IF sel = <<>> THEN "No numeric columns found" ELSE "",
              data |-> d,
              numeric_columns |-> sel,
              out  |-> SampleNotice(d0, ss, quiet) \o FilterWarnings(cols, quiet)] :
               d \in Sampled(d0, ss)}

\* load_and_prepare_data: every state the call can end in
LoadAndPrepare(src, cols, ss, quiet) ==
  IF src.kind = "missing"
  THEN {[pc |-> "failed", err |-> "CSV file not found", data |-> NoFrame,
         numeric_columns |-> <<>>, out |-> <<>>]}
  ELSE IF src.kind = "empty"
  THEN {[pc |-> "failed", err |-> "CSV file is empty", data |-> NoFrame,
         numeric_columns |-> <<>>, out |-> <<>>]}
  ELSE LET d0 == ReadCsv(src.rows) IN
       IF FrameLen(d0) = 0
       THEN {[pc |-> "failed", err |-> "CSV file contains no data", data |-> d0,
              numeric_columns |-> <<>>, out |-> <<>>]}
       ELSE {LET sel == SelectColumns(d, cols) IN
             [pc   |-> IF sel = <<>> THEN "failed" ELSE "loaded",
              err  |-> IF sel = <<>> THEN "No numeric columns found" ELSE "",
              data |-> d,
              numeric_columns |-> sel,
              out  |-> SampleNotice(d0, ss, quiet) \o FilterWarnings(cols, quiet)] :
               d \in Sampled(d0, ss)}

------------------------------------------------------------------------------
(* calculate_statistics *)

\* the values of s in ascending order (what min, max and quantile read)
RECURSIVE SortValues(_)
SortValues(s) ==
  IF s = <<>> THEN <<>>
  ELSE LET i == CHOOSE k \in 1..Len(s) : \A j \in 1..Len(s) : s[k] <= s[j]
       IN  <<s[i]>> \o SortValues(SubSeq(s, 1, i - 1) \o SubSeq(s, i + 1, Len(s)))

RECURSIVE SumSeq(_)
SumSeq(s) == IF s = <<>> THEN 0 ELSE Head(s) + SumSeq(Tail(s))

\* Series.min() and Series.max() of a non-empty series
SeriesMin(s) == SortValues(s)[1]
SeriesMax(s) == SortValues(s)[Len(s)]

\* a slip: the interpolation taken the wrong way round
Quantile4Backwards(s, k) ==
  LET srt == SortValues(s)
      h   == (Len(s) - 1) * k
      lo  == h \div 4
      fr  == h % 4
  IN  IF fr = 0 THEN 4 * srt[lo + 1]
      ELSE 4 * srt[lo + 1] - fr * (srt[lo + 2] - srt[lo + 1])

\* 4 * Series.quantile(k / 4), k in 1..3, of a non-empty series: linear
\* interpolation at position (n - 1) * k / 4 between the two order
\* statistics that surround it
Quantile4(s, k) ==
  LET srt == SortValues(s)
      h   == (Len(s) - 1) * k
      lo  == h \div 4
      fr  == h % 4
  IN  IF fr = 0 THEN 4 * srt[lo + 1]
      ELSE 4 * srt[lo + 1] + fr * (srt[lo + 2] - srt[lo + 1])

\* the empty dict of line 107
EmptyStats == [empty |-> TRUE]

\* lines 102-123.  Quartiles, median and iqr are carried times 4, the mean
\* as the pair <<sum, count>>
CalculateStatistics(d, c) ==
  LET col_data == DropNa(Column(d, c)) IN
  IF Len(col_data) = 0 THEN EmptyStats
  ELSE [empty    |-> FALSE,
        column   |-> c,
        count    |-> Len(col_data),
        missing  |-> IsNaSum(Column(d, c)),
        min      |-> SeriesMin(col_data),
        max      |-> SeriesMax(col_data),
        mean     |-> <<SumSeq(col_data), Len(col_data)>>,
        median4  |-> Quantile4(col_data, 2),
        q25x4    |-> Quantile4(col_data, 1),
        q75x4    |-> Quantile4(col_data, 3),
        range    |-> SeriesMax(col_data) - SeriesMin(col_data),
        iqr4     |-> Quantile4(col_data, 3) - Quantile4(col_data, 1)]

------------------------------------------------------------------------------
(* np.histogram and the two renders *)

\* a slip: the last bin half-open like the others, so that the maximum is
\* counted nowhere
NpHistogramOpenLast(a, nb) ==
  IF nb < 1 THEN [ok |-> FALSE, hist |-> <<>>, bin_edges |-> <<>>, den |-> 1]
  ELSE
  LET mn     == SeriesMin(a)
      mx     == SeriesMax(a)
      first2 == IF mn = mx THEN 2 * mn - 1 ELSE 2 * mn
      last2  == IF mn = mx THEN 2 * mx + 1 ELSE 2 * mx
      idx(v) == ((2 * v - first2) * nb) \div (last2 - first2)
  IN  [ok        |-> TRUE,
       hist      |-> [i \in 1..nb |->
                        Cardinality({j \in 1..Len(a) : idx(a[j]) = i - 1})],
       bin_edges |-> [i \in 1..(nb + 1) |->
                        first2 * nb + (i - 1) * (last2 - first2)],
       den       |-> 2 * nb]

\* a slip: a range of zero width is not widened and the binning raises
NpHistogramFlatRaises(a, nb) ==
  IF nb < 1 \/ SeriesMin(a) = SeriesMax(a)
  THEN [ok |-> FALSE, hist |-> <<>>, bin_edges |-> <<>>, den |-> 1]
  ELSE
  LET first2 == 2 * SeriesMin(a)
      last2  == 2 * SeriesMax(a)
      idx(v) == LET f == ((2 * v - first2) * nb) \div (last2 - first2)
                IN  IF f = nb THEN nb - 1 ELSE f
  IN  [ok        |-> TRUE,
       hist      |-> [i \in 1..nb |->
                        Cardinality({j \in 1..Len(a) : idx(a[j]) = i - 1})],
       bin_edges |-> [i \in 1..(nb + 1) |->
                        first2 * nb + (i - 1) * (last2 - first2)],
       den       |-> 2 * nb]

\* np.histogram(a, bins=nb) of a non-empty array of finite numbers: nb
\* equal-width bins over [min, max], widened to [min - 0.5, max + 0.5] when
\* min = max; every bin is half-open but the last, which is closed.  Edges
\* are numerators over the denominator 2 * nb.  A bin count below 1 raises.
NpHistogram(a, nb) ==
  IF nb < 1 THEN [ok |-> FALSE, hist |-> <<>>, bin_edges |-> <<>>, den |-> 1]
  ELSE
  LET mn     == SeriesMin(a)
      mx     == SeriesMax(a)
      first2 == IF mn = mx THEN 2 * mn - 1 ELSE 2 * mn
      last2  == IF mn = mx THEN 2 * mx + 1 ELSE 2 * mx
      idx(v) == LET f == ((2 * v - first2) * nb) \div (last2 - first2)
                IN  IF f = nb THEN nb - 1 ELSE f
  IN  [ok        |-> TRUE,
       hist      |-> [i \in 1..nb |->
                        Cardinality({j \in 1..Len(a) : idx(a[j]) = i - 1})],
       bin_edges |-> [i \in 1..(nb + 1) |->
                        first2 * nb + (i - 1) * (last2 - first2)],
       den       |-> 2 * nb]

\* hist.max()
MaxOf(h) == CHOOSE m \in Range(h) : \A x \in Range(h) : x <= m

\* a slip: the quotient rounded to the nearest integer, not truncated
AsTypeIntRounded(num, den) == (2 * num + den) \div (2 * den)

\* (x).astype(int) of the non-negative quotient num / den: truncation
AsTypeInt(num, den) == num \div den

\* c * n: the character c repeated n times
Repeat(c, n) == [i \in 1..n |-> c]

\* f"{x:.2f}" of the rational num / den, as hundredths (ties to even)
Fmt2(num, den) ==
  LET q == (100 * num) \div den
      r == (100 * num) % den
  IN  IF 2 * r > den \/ (2 * r = den /\ q % 2 = 1) THEN q + 1 ELSE q

\* the strings the renders return instead of a histogram
InsufficientData == <<"[","I","n","s","u","f","f","i","c","i","e","n","t",
                      " ","d","a","t","a","]">>
ErrorCreatingHistogram == <<"[","E","r","r","o","r"," ","c","r","e","a","t",
                            "i","n","g"," ","h","i","s","t","o","g","r","a",
                            "m","]">>
NoDataInBins == <<"[","N","o"," ","d","a","t","a"," ","i","n"," ","b","i",
                  "n","s","]">>
EmptyHistogram == <<"[","E","m","p","t","y"," ","h","i","s","t","o","g","r",
                    "a","m","]">>
ErrorInline == <<"[","E","r","r","o","r","]">>
NoDataInline == <<"[","N","o"," ","d","a","t","a","]">>
EmptyInline == <<"[", " ", "]">>

\* a slip: the boundary taken one too high
InsufficientAtTwo(col_data) == Len(col_data) <= 2

\* lines 140 and 179: too few values for a histogram
Insufficient(col_data) == Len(col_data) < 2

\* a return value of create_ascii_histogram that is a single sentinel line
SentinelText(t) == [sentinel |-> t, lines |-> <<>>]

\* line 155: the scaled length of bin i
ScaledHist(hist, max_count, width, i) == AsTypeInt(hist[i] * width, max_count)

\* a slip: no marker for a bin whose scaled length is 0
BarNoMarker(hist, max_count, width, i) ==
  LET bar_length == ScaledHist(hist, max_count, width, i) IN
  IF bar_length > 0 THEN Repeat("█", bar_length) ELSE <<" ">>

\* lines 159-165: the bar of bin i
Bar(hist, max_count, width, i) ==
  LET bar_length == ScaledHist(hist, max_count, width, i) IN
  IF bar_length > 0 THEN Repeat("█", bar_length)
  ELSE IF hist[i] > 0 THEN <<"▁">>
  ELSE <<" ">>

\* lines 158-171: the lines of the wide render, one per i in range(bins)
HistogramLines(h, nb, width) ==
  LET max_count == MaxOf(h.hist) IN
  [i \in 1..nb |->
     [label |-> <<Fmt2(h.bin_edges[i], h.den), Fmt2(h.bin_edges[i + 1], h.den)>>,
      bar   |-> Bar(h.hist, max_count, width, i)]]

\* lines 136-173.  The text returned is the sentinel, or the lines joined
\* by newlines
CreateAsciiHistogram(d, c, nb, width) ==
  LET col_data == DropNa(Column(d, c)) IN
  IF Insufficient(col_data) THEN SentinelText(InsufficientData)
  ELSE LET h == NpHistogram(col_data, nb) IN
       IF ~h.ok THEN SentinelText(ErrorCreatingHistogram)
       ELSE IF SumSeq(h.hist) = 0 THEN SentinelText(NoDataInBins)
       ELSE IF MaxOf(h.hist) = 0 THEN SentinelText(EmptyHistogram)
       ELSE [sentinel |-> <<>>, lines |-> HistogramLines(h, nb, width)]

\* line 195
ascii_chars == <<" ", "▁", "▂", "▃", "▄", "▅", "▆", "▇", "█">>

\* line 194: the levels of the inline render are eighths
InlineLevels == 8

Min2(x, y) == IF x <= y THEN x ELSE y

\* a slip: the count scaled by the length of the ramp
NormalizedByRamp(hist, max_count, i) ==
  AsTypeInt(hist[i] * Len(ascii_chars), max_count)

\* line 194: the level of bin i
Normalized(hist, max_count, i) == AsTypeInt(hist[i] * InlineLevels, max_count)

\* line 196: the character of one level (Python indexes from 0)
LevelChar(level) == ascii_chars[Min2(level, Len(ascii_chars) - 1) + 1]

\* a slip: the empty bins left out of the string
InlineCharsSkipEmpty(hist) ==
  LET filled == SelectSeq(hist, LAMBDA x : x > 0) IN
  [i \in 1..Len(filled) |-> LevelChar(Normalized(filled, MaxOf(hist), i))]

\* lines 194-197: one character per bin
InlineChars(hist) ==
  [i \in 1..Len(hist) |-> LevelChar(Normalized(hist, MaxOf(hist), i))]

\* lines 175-197
CreateInlineHistogram(d, c, nb) ==
  LET col_data == DropNa(Column(d, c)) IN
  IF Insufficient(col_data) THEN InsufficientData
  ELSE LET h == NpHistogram(col_data, nb) IN
       IF ~h.ok THEN ErrorInline
       ELSE IF SumSeq(h.hist) = 0 THEN NoDataInline
       ELSE IF MaxOf(h.hist) = 0 THEN EmptyInline
       ELSE InlineChars(h.hist)

------------------------------------------------------------------------------
(* The report formatter *)

\* line 264: the statistics of the selected columns, the empty ones skipped
AllStats(d, cols) ==
  LET kept == SelectSeq(cols, LAMBDA c : ~CalculateStatistics(d, c).empty)
  IN  [i \in 1..Len(kept) |-> CalculateStatistics(d, kept[i])]

\* '{:.4f}'.format of the rational num / den, as ten-thousandths (ties to
\* even)
Fmt4(num, den) ==
  LET q == (10000 * num) \div den
      r == (10000 * num) % den
  IN  IF 2 * r > den \/ (2 * r = den /\ q % 2 = 1) THEN q + 1 ELSE q

\* line 206: the headers of the table without show_all_stats
TableHeaders ==
  <<"Column", "Min", "25%", "Mean", "Median", "75%", "Max", "Std", "Histogram">>

\* lines 211-216: the row of one statistics record: the name (the names of
\* the model are shorter than the 20 characters kept), the formatted
\* statistics the record carries and the inline render
TableRow(d, stats, nb) ==
  [column    |-> stats.column,
   min       |-> Fmt4(stats.min, 1),
   q25       |-> Fmt4(stats.q25x4, 4),
   mean      |-> Fmt4(stats.mean[1], stats.mean[2]),
   median    |-> Fmt4(stats.median4, 4),
   q75       |-> Fmt4(stats.q75x4, 4),
   max       |-> Fmt4(stats.max, 1),
   histogram |-> CreateInlineHistogram(d, stats.column, nb)]

\* lines 199-230: the header line and one row per record of all_stats
FormatStatisticsTable(d, all_stats, nb) ==
  [headers |-> TableHeaders,
   rows    |-> [i \in 1..Len(all_stats) |-> TableRow(d, all_stats[i], nb)]]

\* lines 239-240: the sampling note of the header, <<>> when there is none
SamplingNote(ss) == IF TruthyInt(ss) THEN <<ss[1]>> ELSE <<>>

\* lines 250-258: the numbered section of one statistics record
ReportSection(d, stats, i, nb, width) ==
  [number       |-> i,
   column       |-> stats.column,
   count        |-> stats.count,
   missing      |-> stats.missing,
   min          |-> Fmt4(stats.min, 1),
   max          |-> Fmt4(stats.max, 1),
   mean         |-> Fmt4(stats.mean[1], stats.mean[2]),
   distribution |-> CreateAsciiHistogram(d, stats.column, nb, width)]

\* lines 232-260: the report generated at second now of the clock
GenerateDetailedReport(d, cols, ss, nb, width, all_stats, now) ==
  [generated       |-> now,
   total_rows      |-> FrameLen(d),
   numeric_columns |-> Len(cols),
   sampled         |-> SamplingNote(ss),
   bins            |-> nb,
   width           |-> width,
   table           |-> FormatStatisticsTable(d, all_stats, nb),
   sections        |-> [i \in 1..Len(all_stats) |->
                          ReportSection(d, all_stats[i], i, nb, width)]]

------------------------------------------------------------------------------
(* The state machine *)

\* the return value of a visualizer no method of which has returned
NoRet == [op |-> "", column |-> ""]

\* the observer's record of an earlier state: nothing observed yet
NoSnap == [taken |-> FALSE]

\* the cells a column of the sources of Spec can hold
CellsA == {NaN, 1}
CellsB == {1, Text}

RowsOf(ca, cb, n) == [1..n -> {[a |-> x, b |-> y] : x \in ca, y \in cb}]

Sources ==
  {[kind |-> "missing", rows |-> <<>>], [kind |-> "empty", rows |-> <<>>]}
  \cup {[kind |-> "table", rows |-> r] :
          r \in UNION {RowsOf(CellsA, CellsB, n) : n \in 0..MaxRows}}

SampleSizes == {None} \cup {Some(n) : n \in 0..MaxRows}

Filters == {<<>>, <<"a">>, <<"b", "zz">>, <<"zz">>}

\* CSVVisualizer(csv_path, columns, sample_size=...): bins and
\* histogram_width at their defaults
DefaultBins == 10
DefaultWidth == 20

Init ==
  /\ source \in Sources
  /\ columns \in Filters
  /\ sample_size \in SampleSizes
  /\ bins = DefaultBins
  /\ histogram_width = DefaultWidth
  /\ quiet_mode \in BOOLEAN
  /\ data = NoFrame
  /\ numeric_columns = <<>>
  /\ pc = "new"
  /\ err = ""
  /\ out = <<>>
  /\ ret = NoRet
  /\ snap = NoSnap

Load ==
  /\ pc = "new"
  /\ \E r \in LoadAndPrepare(source, columns, sample_size, quiet_mode) :
       /\ pc' = r.pc
       /\ err' = r.err
       /\ data' = r.data
       /\ numeric_columns' = r.numeric_columns
       /\ out' = r.out
  /\ UNCHANGED <<source, columns, bins, sample_size, histogram_width,
                 quiet_mode, ret, snap>>

\* the columns the statistics and the renders are asked for: the
\* number-typed columns of the frame held
NumberColumns == Range(SelectNumberDtypes(data))

\* a slip: calculate_statistics drops the rows missing the column from
\* self.data itself (dropna(subset=[column], inplace=True))
CalcStatsDropsInPlace ==
  /\ pc = "loaded"
  /\ \E c \in NumberColumns :
       /\ ret' = [op |-> "calculate_statistics", column |-> c,
                   stats |-> CalculateStatistics(data, c)]
       /\ data' = [data EXCEPT
                     !.rows = SelectSeq(data.rows,
                                        LAMBDA r : r.cells[c] # NaN)]
  /\ UNCHANGED <<source, columns, bins, sample_size, histogram_width,
                 quiet_mode, numeric_columns, pc, err, out, snap>>

CalcStats ==
  /\ pc = "loaded"
  /\ \E c \in NumberColumns :
       ret' = [op |-> "calculate_statistics", column |-> c,
               stats |-> CalculateStatistics(data, c)]
  /\ UNCHANGED <<source, columns, bins, sample_size, histogram_width,
                 quiet_mode, data, numeric_columns, pc, err, out, snap>>

AsciiHistogram ==
  /\ pc = "loaded"
  /\ \E c \in NumberColumns :
       ret' = [op |-> "create_ascii_histogram", column |-> c,
               wide |-> CreateAsciiHistogram(data, c, bins, histogram_width)]
  /\ UNCHANGED <<source, columns, bins, sample_size, histogram_width,
                 quiet_mode, data, numeric_columns, pc, err, out, snap>>

InlineHistogram ==
  /\ pc = "loaded"
  /\ \E c \in NumberColumns :
       ret' = [op |-> "create_inline_histogram", column |-> c,
               text |-> CreateInlineHistogram(data, c, bins)]
  /\ UNCHANGED <<source, columns, bins, sample_size, histogram_width,
                 quiet_mode, data, numeric_columns, pc, err, out, snap>>

\* the seconds datetime.now() can show
Clock == 0..MaxClock

\* format_statistics_table on the statistics of the selected columns
FormatTable ==
  /\ pc = "loaded"
  /\ ret' = [op |-> "format_statistics_table", column |-> "",
              table |-> FormatStatisticsTable(
                          data, AllStats(data, numeric_columns), bins)]
  /\ UNCHANGED <<source, columns, bins, sample_size, histogram_width,
                 quiet_mode, data, numeric_columns, pc, err, out, snap>>

\* generate_detailed_report on the statistics of the selected columns
DetailedReport ==
  /\ pc = "loaded"
  /\ \E now \in Clock :
       ret' = [op |-> "generate_detailed_report", column |-> "",
               report |-> GenerateDetailedReport(
                            data, numeric_columns, sample_size, bins,
                            histogram_width, AllStats(data, numeric_columns),
                            now)]
  /\ UNCHANGED <<source, columns, bins, sample_size, histogram_width,
                 quiet_mode, data, numeric_columns, pc, err, out, snap>>

\* lines 262-266: run_analysis on a new visualizer; a load that fails
\* raises and nothing is returned
RunAnalysis ==
  /\ pc = "new"
  /\ \E r \in LoadAndPrepare(source, columns, sample_size, quiet_mode),
        now \in Clock :
       /\ pc' = r.pc
       /\ err' = r.err
       /\ data' = r.data
       /\ numeric_columns' = r.numeric_columns
       /\ out' = r.out
       /\ ret' = IF r.pc = "loaded"
                 THEN LET all_stats == AllStats(r.data, r.numeric_columns) IN
                      [op |-> "run_analysis", column |-> "",
                       all_stats |-> all_stats,
                       report |-> GenerateDetailedReport(
                                    r.data, r.numeric_columns, sample_size,
                                    bins, histogram_width, all_stats, now)]
                 ELSE ret
  /\ UNCHANGED <<source, columns, bins, sample_size, histogram_width,
                 quiet_mode, snap>>

\* the observer notes the frame, the selection and the last return value
Observe ==
  /\ pc = "loaded"
  /\ ~snap.taken
  /\ snap' = [taken |-> TRUE, data |-> data,
               numeric_columns |-> numeric_columns, ret |-> ret]
  /\ UNCHANGED <<source, columns, bins, sample_size, histogram_width,
                 quiet_mode, data, numeric_columns, pc, err, out, ret>>

Next == Load \/ CalcStats \/ AsciiHistogram \/ InlineHistogram

Spec == Init /\ [][Next]_vars

\* a run of the analysis, or a load followed by the statistics and the
\* report formatter
ReportNext ==
  \/ Load
  \/ CalcStats
  \/ FormatTable
  \/ DetailedReport
  \/ RunAnalysis

InitReport ==
  /\ source \in Sources
  /\ columns \in Filters
  /\ sample_size \in SampleSizes
  /\ bins = DefaultBins
  /\ histogram_width = DefaultWidth
  /\ quiet_mode = TRUE
  /\ data = NoFrame
  /\ numeric_columns = <<>>
  /\ pc = "new"
  /\ err = ""
  /\ out = <<>>
  /\ ret = NoRet
  /\ snap = NoSnap

ReportSpec == InitReport /\ [][ReportNext]_vars

\* the calls on a loaded visualizer, watched by the observer
FrameNext == Next \/ FormatTable \/ DetailedReport \/ Observe

InitFrame ==
  /\ source \in Sources
  /\ columns \in Filters
  /\ sample_size \in {None, Some(1)}
  /\ bins = DefaultBins
  /\ histogram_width = DefaultWidth
  /\ quiet_mode = TRUE
  /\ data = NoFrame
  /\ numeric_columns = <<>>
  /\ pc = "new"
  /\ err = ""
  /\ out = <<>>
  /\ ret = NoRet
  /\ snap = NoSnap

FrameSpec == InitFrame /\ [][FrameNext]_vars

\* the sources of HistSpec: one column of values, read whole
CellsHist == {NaN} \cup 0..MaxVal

HistSources ==
  {[kind |-> "table", rows |-> r] :
     r \in UNION {RowsOf(CellsHist, {NaN}, n) : n \in 1..(MaxRows + 1)}}

InitHist ==
  /\ source \in HistSources
  /\ columns = <<>>
  /\ sample_size = None
  /\ bins \in 1..MaxBins
  /\ histogram_width \in 1..MaxWidth
  /\ quiet_mode = FALSE
  /\ data = NoFrame
  /\ numeric_columns = <<>>
  /\ pc = "new"
  /\ err = ""
  /\ out = <<>>
  /\ ret = NoRet
  /\ snap = NoSnap

HistSpec == InitHist /\ [][Next]_vars

------------------------------------------------------------------------------
(* Properties *)

\* the non-missing cells of column c of the frame held, counted on the rows
NonMissing(c) == Cardinality({i \in 1..Len(data.rows) : data.rows[i].cells[c] # NaN})

StatsReturned == ret.op = "calculate_statistics" /\ ~ret.stats.empty

\* C1: whenever calculate_statistics returns a non-empty record for a column
\* of the loaded frame, count is the number of its non-missing cells and
\* count + missing is the number of rows of the frame held after load
CountPlusMissingIsRowCount ==
  StatsReturned =>
    /\ ret.stats.count = NonMissing(ret.column)
    /\ ret.stats.count + ret.stats.missing = FrameLen(data)

\* C1: statistics of a column with missing cells, on a subsampled frame
CountPlusMissingWitness ==
  /\ StatsReturned
  /\ ret.stats.missing > 0
  /\ FrameLen(data) < Len(source.rows)

\* the values of column c of the frame held that are at most v
AtMost(c, v) ==
  Cardinality({i \in 1..Len(data.rows) :
                 data.rows[i].cells[c] # NaN /\ data.rows[i].cells[c] <= v})

\* the k-th smallest non-missing value of column c, k in 1..NonMissing(c)
OrderStat(c, k) ==
  CHOOSE v \in 0..MaxVal + 1 : AtMost(c, v) >= k /\ AtMost(c, v - 1) < k

\* C2: the statistics of a column with a non-missing value are ordered
\* min <= q25 <= median <= q75 <= max, min and max being the extreme order
\* statistics and the median the middle one (the mean of the two middle
\* ones for an even count)
QuartilesOrdered ==
  StatsReturned =>
    LET st == ret.stats
        n  == NonMissing(ret.column)
    IN  /\ st.min = OrderStat(ret.column, 1)
        /\ st.max = OrderStat(ret.column, n)
        /\ st.median4 = 2 * (OrderStat(ret.column, (n + 1) \div 2)
                              + OrderStat(ret.column, (n + 2) \div 2))
        /\ 4 * st.min <= st.q25x4
        /\ st.q25x4 <= st.median4
        /\ st.median4 <= st.q75x4
        /\ st.q75x4 <= 4 * st.max

\* C2: statistics whose quartiles are interpolated and strictly ordered
QuartilesOrderedWitness ==
  /\ StatsReturned
  /\ ret.stats.count = 4
  /\ ret.stats.q25x4 % 4 # 0
  /\ 4 * ret.stats.min < ret.stats.q25x4
  /\ ret.stats.q25x4 < ret.stats.median4
  /\ ret.stats.median4 < ret.stats.q75x4
  /\ ret.stats.q75x4 < 4 * ret.stats.max

\* the load read a source of at least one row (it ended loaded, or failed
\* for want of a numeric column)
ReadRows == pc = "loaded" \/ (pc = "failed" /\ err = "No numeric columns found")

\* the rows of the frame held are n distinct rows of the source
DistinctSourceRows(n) ==
  /\ FrameLen(data) = n
  /\ \A i \in 1..n :
        /\ data.rows[i].index \in 0..(Len(source.rows) - 1)
        /\ data.rows[i].cells = source.rows[data.rows[i].index + 1]
  /\ \A i, j \in 1..n : i # j => data.rows[i].index # data.rows[j].index

\* the frame held is the source, whole and in its order
FullSource ==
  /\ FrameLen(data) = Len(source.rows)
  /\ \A i \in 1..Len(source.rows) :
        data.rows[i].index = i - 1 /\ data.rows[i].cells = source.rows[i]

\* C3 as claimed: a sample size S below the row count N leaves exactly S
\* distinct rows of the source, any other sample size or none leaves the
\* source whole
SamplingAsClaimed ==
  ReadRows =>
    IF sample_size # None /\ sample_size[1] < Len(source.rows)
    THEN DistinctSourceRows(sample_size[1])
    ELSE FullSource

\* C3 amended: a sample size S with 0 < S < N leaves exactly S distinct
\* rows of the source; S >= N, S = 0 or no sample size leaves the source
\* whole
SamplingExact ==
  ReadRows =>
    IF sample_size # None /\ 0 < sample_size[1] /\ sample_size[1] < Len(source.rows)
    THEN DistinctSourceRows(sample_size[1])
    ELSE FullSource

\* C3: two rows drawn from a source of three
SamplingWitness ==
  /\ pc = "loaded"
  /\ sample_size = Some(2)
  /\ Len(source.rows) = 3
  /\ FrameLen(data) = 2
  /\ data.rows[1].index > data.rows[2].index

\* the columns of the frame held that are number-typed and have a
\* non-missing cell, within the filter when one is given
ExpectedSelection ==
  {c \in ColSet :
     /\ data.dtypes[c] = "number"
     /\ NonMissing(c) > 0
     /\ columns # <<>> => \E i \in 1..Len(columns) : columns[i] = c}

\* C4: after a successful load numeric_columns lists, once each, exactly
\* the number-typed columns of the frame held that have a non-missing cell
\* and pass the filter when one is given
SelectionExact ==
  pc = "loaded" =>
    /\ Range(numeric_columns) = ExpectedSelection
    /\ Len(numeric_columns) = Cardinality(ExpectedSelection)
    /\ \A c \in Range(numeric_columns) :
          /\ c \in ColSet
          /\ \A i \in 1..Len(source.rows) : source.rows[i][c] # Text
          /\ \E i \in 1..Len(data.rows) : data.rows[i].cells[c] # NaN

\* C4: a load under a filter that names an absent column, on a frame whose
\* other number-typed column is left without a value by the subsampling
SelectionWitness ==
  /\ pc = "loaded"
  /\ columns = <<"b", "zz">>
  /\ numeric_columns = <<"b">>
  /\ data.dtypes["a"] = "number"
  /\ NonMissing("a") = 0
  /\ \E i \in 1..Len(source.rows) : source.rows[i]["a"] # NaN

\* C5: on a source of at least one row the load fails with "No numeric
\* columns found" exactly when the selection is empty; a requested name
\* that is no column is warned about unless quiet, and the load succeeds
\* when another requested column is number-typed with a value
NoNumericColumnsIffEmpty ==
  (pc # "new" /\ source.kind = "table" /\ Len(source.rows) > 0) =>
    /\ (pc = "failed" /\ err = "No numeric columns found") <=> ExpectedSelection = {}
    /\ pc = "loaded" <=> ExpectedSelection # {}
    /\ \A i \in 1..Len(columns) :
          columns[i] \notin ColSet =>
            /\ quiet_mode => \A k \in 1..Len(out) : out[k].level # "WARNING"
            /\ ~quiet_mode =>
                  \E k \in 1..Len(out) :
                    out[k].level = "WARNING" /\ out[k].column = columns[i]
            /\ (\E c \in ColSet :
                   /\ \E j \in 1..Len(columns) : columns[j] = c
                   /\ data.dtypes[c] = "number"
                   /\ NonMissing(c) > 0) => pc = "loaded"

\* C5: a load that warns about an absent name and succeeds
NoNumericColumnsWitness ==
  /\ pc = "loaded"
  /\ columns = <<"b", "zz">>
  /\ ~quiet_mode
  /\ \E k \in 1..Len(out) : out[k].level = "WARNING" /\ out[k].column = "zz"

\* the bin counts of column c of the frame held
HistOf(c) == NpHistogram(DropNa(Column(data, c)), bins).hist

InlineReturned == ret.op = "create_inline_histogram"
AsciiReturned == ret.op = "create_ascii_histogram"

\* the sentinels of the inline render
InlineSentinels == {InsufficientData, ErrorInline, NoDataInline, EmptyInline}

\* C6: the inline render of a column with at least 2 non-missing values is
\* a string of as many characters as there are bins
InlineLengthIsBins ==
  (InlineReturned /\ NonMissing(ret.column) >= 2) => Len(ret.text) = bins

\* C6: an inline render of several bins, one of them empty
InlineLengthWitness ==
  /\ InlineReturned
  /\ NonMissing(ret.column) >= 2
  /\ bins = 3
  /\ Len(ret.text) = 3
  /\ ret.text[2] = " "

\* C7: each render returns "[Insufficient data]" exactly when the column
\* has fewer than 2 non-missing values; with exactly 2 it returns a
\* histogram
InsufficientIffBelowTwo ==
  /\ AsciiReturned =>
        /\ ret.wide.sentinel = InsufficientData <=> NonMissing(ret.column) < 2
        /\ NonMissing(ret.column) < 2 => ret.wide.lines = <<>>
        /\ NonMissing(ret.column) = 2 =>
              ret.wide.sentinel = <<>> /\ Len(ret.wide.lines) = bins
  /\ InlineReturned =>
        /\ ret.text = InsufficientData <=> NonMissing(ret.column) < 2
        /\ NonMissing(ret.column) = 2 =>
              /\ ret.text \notin InlineSentinels
              /\ \A i \in 1..Len(ret.text) : ret.text[i] \in Range(ascii_chars)

\* C7: the inline render of a column of exactly 2 non-missing values, one
\* cell of it missing
InsufficientWitness ==
  /\ InlineReturned
  /\ NonMissing(ret.column) = 2
  /\ FrameLen(data) = 3
  /\ ret.text # InsufficientData

\* the solid blocks of a bar
Blocks(bar) == Cardinality({k \in 1..Len(bar) : bar[k] = "█"})

\* num / den rounded to the nearest integer (ties to even)
Rounded(num, den) ==
  LET q == num \div den
      r == num % den
  IN  IF 2 * r > den \/ (2 * r = den /\ q % 2 = 1) THEN q + 1 ELSE q

WideDrawn == AsciiReturned /\ ret.wide.sentinel = <<>>

\* C8 as claimed: the bar of bin i of the wide render has
\* round(count_i / max_count * histogram_width) solid blocks
BarLengthRounded ==
  WideDrawn =>
    LET hist == HistOf(ret.column) IN
    \A i \in 1..Len(hist) :
      Blocks(ret.wide.lines[i].bar) = Rounded(hist[i] * histogram_width, MaxOf(hist))

\* C8 amended: the bar of bin i has floor(count_i / max_count *
\* histogram_width) solid blocks; a bin that holds max_count has
\* histogram_width of them and no bar is longer than histogram_width
BarLengthTruncated ==
  WideDrawn =>
    LET hist == HistOf(ret.column)
        mx   == MaxOf(hist)
    IN  \A i \in 1..Len(hist) :
          LET b == Blocks(ret.wide.lines[i].bar) IN
          /\ b * mx <= hist[i] * histogram_width
          /\ hist[i] * histogram_width < (b + 1) * mx
          /\ hist[i] = mx => b = histogram_width
          /\ Len(ret.wide.lines[i].bar) <= histogram_width

\* C8: a bar of at least one block whose exact scaled length lies nearer
\* the next integer
BarLengthWitness ==
  /\ WideDrawn
  /\ \E i \in 1..bins :
        /\ Blocks(ret.wide.lines[i].bar) >= 1
        /\ 2 * ((HistOf(ret.column)[i] * histogram_width) % MaxOf(HistOf(ret.column)))
             > MaxOf(HistOf(ret.column))

\* the ramp of the inline render, blank to full block
RampClaimed == <<" ", "▁", "▂", "▃", "▄", "▅", "▆", "▇", "█">>

\* C9: character i of the inline render is the symbol of the 9-symbol ramp
\* at floor(count_i / max_count * 8); a bin that holds max_count is the
\* full block and an empty bin is blank
InlineLevelIsFloorEighths ==
  (InlineReturned /\ NonMissing(ret.column) >= 2) =>
    LET hist == HistOf(ret.column)
        mx   == MaxOf(hist)
    IN  /\ Len(ret.text) = Len(hist)
        /\ \A i \in 1..Len(hist) :
              /\ \E k \in 0..8 :
                    /\ k * mx <= hist[i] * 8
                    /\ hist[i] * 8 < (k + 1) * mx \/ k = 8
                    /\ ret.text[i] = RampClaimed[k + 1]
              /\ hist[i] = mx => ret.text[i] = "█"
              /\ hist[i] = 0 => ret.text[i] = " "

\* C9: an inline render with a bin a third as full as the fullest
InlineLevelWitness ==
  /\ InlineReturned
  /\ NonMissing(ret.column) >= 2
  /\ \E i \in 1..Len(ret.text) : ret.text[i] = "▂"

\* C10: the wide render of a column with at least 2 non-missing values has
\* one line per bin; the bar of a line is blank exactly when the bin is
\* empty, and a non-empty bin whose scaled length is 0 is drawn as the
\* single marker
WideLinesAndMarkers ==
  (AsciiReturned /\ NonMissing(ret.column) >= 2) =>
    LET hist == HistOf(ret.column)
        mx   == MaxOf(hist)
    IN  /\ ret.wide.sentinel = <<>>
        /\ Len(ret.wide.lines) = bins
        /\ \A i \in 1..bins :
              LET bar == ret.wide.lines[i].bar IN
              /\ bar = <<" ">> <=> hist[i] = 0
              /\ hist[i] > 0 => \A k \in 1..Len(bar) : bar[k] # " "
              /\ hist[i] > 0 => Len(bar) >= 1
              /\ (hist[i] > 0 /\ hist[i] * histogram_width < mx) => bar = <<"▁">>

\* C10: a wide render with a marker bar and a blank bar
WideMarkerWitness ==
  /\ AsciiReturned
  /\ NonMissing(ret.column) >= 2
  /\ \E i, j \in 1..bins :
        ret.wide.lines[i].bar = <<"▁">> /\ ret.wide.lines[j].bar = <<" ">>

\* a render has returned for a column with at least 2 non-missing values
RenderReturned ==
  (AsciiReturned \/ InlineReturned) /\ NonMissing(ret.column) >= 2

\* what np.histogram returns for column c of the frame held
BinsOf(c) == NpHistogram(DropNa(Column(data, c)), bins)

\* the rows of column c whose value lies in bin i of h: at or above its
\* left edge and below its right edge, or on the right edge of the last bin
InBin(c, h, i) ==
  {j \in 1..Len(data.rows) :
     LET v == data.rows[j].cells[c] IN
     /\ v # NaN
     /\ h.bin_edges[i] <= v * h.den
     /\ \/ v * h.den < h.bin_edges[i + 1]
        \/ i = bins /\ v * h.den = h.bin_edges[i + 1]}

\* the sentinels of an empty histogram
NoDataSentinels == {NoDataInBins, EmptyHistogram, NoDataInline, EmptyInline}

\* the render returned is none of the sentinels of an empty histogram
NotNoData ==
  /\ AsciiReturned => ret.wide.sentinel \notin NoDataSentinels
  /\ InlineReturned => ret.text \notin NoDataSentinels

\* the bins of h have one width and every value is counted in one bin
EqualBinsCountEachOnce(c, h) ==
  /\ h.ok
  /\ Len(h.hist) = bins
  /\ \A i \in 1..bins :
        /\ h.bin_edges[i + 1] - h.bin_edges[i] = h.bin_edges[2] - h.bin_edges[1]
        /\ h.hist[i] = Cardinality(InBin(c, h, i))
  /\ \A j \in 1..Len(data.rows) :
        data.rows[j].cells[c] # NaN =>
          Cardinality({i \in 1..bins : j \in InBin(c, h, i)}) = 1
  /\ SumSeq(h.hist) = NonMissing(c)
  /\ MaxOf(h.hist) >= 1

\* C11 as claimed: the bins of a column with at least 2 non-missing values
\* are equal-width intervals from its minimum to its maximum, every value
\* is counted in exactly one, and no empty-histogram sentinel is returned
BinsSpanMinMax ==
  RenderReturned =>
    LET c == ret.column
        h == BinsOf(c)
    IN  /\ EqualBinsCountEachOnce(c, h)
        /\ h.bin_edges[1] = OrderStat(c, 1) * h.den
        /\ h.bin_edges[bins + 1] = OrderStat(c, NonMissing(c)) * h.den
        /\ NotNoData

\* C11 amended: the bins run from the minimum to the maximum when these
\* differ and from the value - 0.5 to the value + 0.5 when all values are
\* the same; the rest as claimed
BinsSpanRange ==
  RenderReturned =>
    LET c  == ret.column
        h  == BinsOf(c)
        mn == OrderStat(c, 1)
        mx == OrderStat(c, NonMissing(c))
    IN  /\ EqualBinsCountEachOnce(c, h)
        /\ mn < mx => /\ h.bin_edges[1] = mn * h.den
                       /\ h.bin_edges[bins + 1] = mx * h.den
        /\ mn = mx => /\ 2 * h.bin_edges[1] = (2 * mn - 1) * h.den
                       /\ 2 * h.bin_edges[bins + 1] = (2 * mx + 1) * h.den
        /\ NotNoData

\* C11: a render of a column with a value on an interior edge, counted in
\* the bin on its right, and its maximum counted in the last bin
BinsSpanWitness ==
  /\ RenderReturned
  /\ bins = 2
  /\ OrderStat(ret.column, 1) = 0
  /\ OrderStat(ret.column, NonMissing(ret.column)) = 2
  /\ \E j \in 1..Len(data.rows) :
        /\ data.rows[j].cells[ret.column] = 1
        /\ j \in InBin(ret.column, BinsOf(ret.column), 2)
  /\ BinsOf(ret.column).hist[2] >= 2

\* all non-missing values of column c are the same, and there are 2 or more
Flat(c) == NonMissing(c) >= 2 /\ OrderStat(c, 1) = OrderStat(c, NonMissing(c))

\* C12: for a column whose 2 or more non-missing values are all the same
\* neither render returns an error sentinel; the bins have a width above 0,
\* exactly one holds a count, the number of non-missing values, and the
\* renders show it: one full bar or full block, the rest blank
FlatColumnOneBin ==
  /\ (AsciiReturned /\ Flat(ret.column)) =>
        /\ ret.wide.sentinel = <<>>
        /\ Len(ret.wide.lines) = bins
        /\ Cardinality({i \in 1..bins : ret.wide.lines[i].bar # <<" ">>}) = 1
        /\ \A i \in 1..bins :
              /\ ret.wide.lines[i].bar \in {<<" ">>, Repeat("█", histogram_width)}
              /\ ret.wide.lines[i].label[1] < ret.wide.lines[i].label[2]
  /\ (InlineReturned /\ Flat(ret.column)) =>
        /\ ret.text \notin InlineSentinels
        /\ Len(ret.text) = bins
        /\ Cardinality({i \in 1..bins : ret.text[i] # " "}) = 1
        /\ \A i \in 1..bins : ret.text[i] \in {" ", "█"}
  /\ ((AsciiReturned \/ InlineReturned) /\ Flat(ret.column)) =>
        LET h == BinsOf(ret.column) IN
        /\ h.ok
        /\ \A i \in 1..bins : h.bin_edges[i] < h.bin_edges[i + 1]
        /\ Cardinality({i \in 1..bins : h.hist[i] # 0}) = 1
        /\ \E i \in 1..bins : h.hist[i] = NonMissing(ret.column)

\* C12: the wide render of three equal values in three bins
FlatColumnWitness ==
  /\ AsciiReturned
  /\ Flat(ret.column)
  /\ NonMissing(ret.column) = 3
  /\ bins = 3
  /\ ret.wide.lines[2].bar = Repeat("█", histogram_width)


\* a call has returned a detailed report
ReportReturned == ret.op \in {"generate_detailed_report", "run_analysis"}

\* sampling was applicable to the run: a sample size below the row count of
\* the source was given and the frame holds fewer rows than the source
SamplingApplicable ==
  /\ sample_size # None
  /\ sample_size[1] < Len(source.rows)
  /\ FrameLen(data) < Len(source.rows)

\* C13 (as claimed): the header of a detailed report carries the sampling
\* note exactly when a sample size below the row count was given and the
\* dataset was subsampled, and a note never shows a row count other than the
\* Total Rows of the same header.
SampledNoteIffSampled ==
  ReportReturned =>
    /\ (ret.report.sampled # <<>>) <=> SamplingApplicable
    /\ ret.report.sampled # <<>> =>
         ret.report.sampled[1] = ret.report.total_rows


\* the methods called on a loaded visualizer
LoadedCalls ==
  {"calculate_statistics", "create_ascii_histogram",
   "create_inline_histogram", "format_statistics_table",
   "generate_detailed_report"}

\* the same method called on the same column
SameCall(r1, r2) ==
  r1.op \in LoadedCalls /\ r1.op = r2.op /\ r1.column = r2.column

\* the frame and the selection are as the observer saw them
FrameAsObserved ==
  snap.taken => data = snap.data /\ numeric_columns = snap.numeric_columns

\* a return value without the "Generated:" line of a report
WithoutTimestamp(r) ==
  IF r.op = "generate_detailed_report"
  THEN [r EXCEPT !.report.generated = 0]
  ELSE r

\* C14 (as claimed): after load no call changes self.data or
\* self.numeric_columns, and a call returns what the same call returned
\* earlier, whatever calls were made in between.
CallsRepeatExactly ==
  /\ FrameAsObserved
  /\ snap.taken /\ SameCall(snap.ret, ret) => ret = snap.ret

\* C14: after load no call changes self.data or self.numeric_columns, and a
\* call returns what the same call returned earlier, whatever calls were made
\* in between, except for the "Generated:" line of the detailed report, which
\* shows the time of the call.
CallsRepeatButTimestamp ==
  /\ FrameAsObserved
  /\ snap.taken /\ SameCall(snap.ret, ret) =>
       WithoutTimestamp(ret) = WithoutTimestamp(snap.ret)

\* a report generated again at another second, over a frame with a missing
\* cell, after the observer saw the first one
CallsRepeatWitness ==
  /\ snap.taken
  /\ snap.ret.op = "generate_detailed_report"
  /\ ret.op = "generate_detailed_report"
  /\ ret.report.generated # snap.ret.report.generated
  /\ \E c \in NumberColumns : IsNaSum(Column(data, c)) > 0
  /\ FrameLen(data) > 1


\* the entries of a sequence of records are those of the selected columns,
\* one each and in the order of the selection
OnePerSelected(entries) ==
  /\ Len(entries) = Len(numeric_columns)
  /\ \A i \in 1..Len(entries) : entries[i].column = numeric_columns[i]

\* C15: after a successful load calculate_statistics returns a record that is
\* not empty for every selected column, and what run_analysis returns has one
\* record, one table row and one numbered section per selected column, in the
\* order of the selection, none of them empty.
EverySelectedColumnComputed ==
  /\ pc = "loaded" =>
       \A c \in Range(numeric_columns) : ~CalculateStatistics(data, c).empty
  /\ ret.op = "calculate_statistics" /\ ret.column \in Range(numeric_columns)
       => ~ret.stats.empty
  /\ ret.op = "run_analysis" =>
       /\ OnePerSelected(ret.all_stats)
       /\ \A i \in 1..Len(ret.all_stats) : ~ret.all_stats[i].empty
       /\ OnePerSelected(ret.report.table.rows)
       /\ OnePerSelected(ret.report.sections)
       /\ \A i \in 1..Len(ret.report.sections) :
            ret.report.sections[i].number = i

\* run_analysis has returned on a sampled frame in which a column that has
\* values in the source has none, and is not selected
EverySelectedColumnWitness ==
  /\ ret.op = "run_analysis"
  /\ FrameLen(data) < Len(source.rows)
  /\ columns = <<>>
  /\ \E c \in NumberColumns :
       /\ \E i \in 1..Len(source.rows) : source.rows[i][c] # NaN
       /\ CalculateStatistics(data, c).empty
       /\ c \notin Range(numeric_columns)
  /\ Len(ret.all_stats) = 1

====
